---- MODULE Spec2Model ----
(***************************************************************************)
(* Model of the email scraper: scrapper.py (validation, extraction,        *)
(* sub-page discovery, page fetcher with retries, site crawler) and app.py *)
(* (worker sizing, worker wrapper, parallel dispatcher).                   *)
(*                                                                         *)
(* Strings are sequences of symbols.  A symbol is a single character, or   *)
(* an indivisible lowercase literal of the page ("mailto:", "https://",    *)
(* "a.org", "/contact", "&#64;").                                          *)
(***************************************************************************)
EXTENDS Integers, Sequences, FiniteSets, TLC

\* ------------------------------------------------------------- strings

LowerSeq == <<"a","b","c","d","e","f","g","h","i","j","k","l","m",
              "n","o","p","q","r","s","t","u","v","w","x","y","z">>
UpperSeq == <<"A","B","C","D","E","F","G","H","I","J","K","L","M",
              "N","O","P","Q","R","S","T","U","V","W","X","Y","Z">>
Range(f) == {f[i] : i \in DOMAIN f}
Letters == Range(LowerSeq) \cup Range(UpperSeq)
Digits == {"0","1","2","3","4","5","6","7","8","9"}

\* str.lower() on one symbol
LowerCh(c) ==
  IF c \in Range(UpperSeq)
  THEN LowerSeq[CHOOSE i \in DOMAIN UpperSeq : UpperSeq[i] = c]
  ELSE c

\* str.lower()
Lower(s) == [i \in DOMAIN s |-> LowerCh(s[i])]

\* sub in s
IsSubstr(sub, s) ==
  \E i \in 0..(Len(s) - Len(sub)) : SubSeq(s, i + 1, i + Len(sub)) = sub

\* s.startswith(p)
StartsWith(s, p) == Len(s) >= Len(p) /\ SubSeq(s, 1, Len(p)) = p

\* s.split(sep)[0]
SplitHead(s, sep) ==
  IF \E i \in DOMAIN s : s[i] = sep
  THEN SubSeq(s, 1, (CHOOSE i \in DOMAIN s :
                       s[i] = sep /\ \A j \in 1..(i - 1) : s[j] # sep) - 1)
  ELSE s

\* s.replace(sym, '')
Remove(s, sym) == SelectSeq(s, LAMBDA c : c # sym)

\* s.strip()
RECURSIVE Strip(_)
Strip(s) ==
  IF s = <<>> THEN s
  ELSE IF Head(s) = " " THEN Strip(Tail(s))
  ELSE IF s[Len(s)] = " " THEN Strip(SubSeq(s, 1, Len(s) - 1))
  ELSE s

\* ''.join(parts)
RECURSIVE Join(_)
Join(parts) == IF parts = <<>> THEN <<>> ELSE Head(parts) \o Join(Tail(parts))

AllIn(s, C) == \A i \in DOMAIN s : s[i] \in C

\* --------------------------------------------------------- validate_email

LocalCh == Letters \cup Digits \cup {".", "_", "%", "+", "-"}
DomainCh == Letters \cup Digits \cup {".", "-"}

\* [a-zA-Z0-9.-]+\.[A-Za-z]{2,} matched against the whole of d
DomainTldMatch(d) ==
  \E k \in 2..(Len(d) - 2) :
    /\ d[k] = "."
    /\ AllIn(SubSeq(d, 1, k - 1), DomainCh)
    /\ AllIn(SubSeq(d, k + 1, Len(d)), Letters)

\* ^[a-zA-Z0-9._%+-]+@[a-zA-Z0-9.-]+\.[A-Za-z]{2,}$
PatternMatch(s) ==
  \E i \in 2..Len(s) :
    /\ s[i] = "@"
    /\ AllIn(SubSeq(s, 1, i - 1), LocalCh)
    /\ DomainTldMatch(SubSeq(s, i + 1, Len(s)))

common_false_positives ==
  { <<"e","x","a","m","p","l","e",".","c","o","m">>,
    <<"d","o","m","a","i","n",".","c","o","m">>,
    <<"e","m","a","i","l",".","c","o","m">>,
    <<"y","o","u","r","-","e","m","a","i","l",".","c","o","m">>,
    <<"u","s","e","r","n","a","m","e","@">>,
    <<"@","d","o","m","a","i","n">>,
    <<"e","x","a","m","p","l","e","@","e","x","a","m","p","l","e">> }

\* re.search(r'\d{3}-\d{3}-\d{4}', s)
PhoneSearch(s) ==
  \E i \in 0..(Len(s) - 12) :
    /\ \A j \in {1, 2, 3, 5, 6, 7, 9, 10, 11, 12} : s[i + j] \in Digits
    /\ s[i + 4] = "-"
    /\ s[i + 8] = "-"

\* re.match(pattern, email): without re.MULTILINE the closing $ matches at the
\* end of the string and also just before a newline that ends it
ReMatch(email) ==
  \/ PatternMatch(email)
  \/ /\ email # <<>>
     /\ email[Len(email)] = "\n"
     /\ PatternMatch(SubSeq(email, 1, Len(email) - 1))

validate_email(email) ==
  IF email = <<>> \/ ~ (\E i \in DOMAIN email : email[i] = "@") THEN FALSE
  ELSE IF \E fp \in common_false_positives : IsSubstr(fp, Lower(email)) THEN FALSE
  ELSE IF PhoneSearch(SplitHead(email, "@")) THEN FALSE
  ELSE ReMatch(email)

\* ------------------------------------------------------------ extraction
\* A page (the parsed soup) is a record
\*   anchors : sequence of [href, text]      the <a href=...> tags
\*   words   : sequence of strings           soup.stripped_strings, joined by ' '
\*   scripts : sequence of scripts; a script is a sequence of items, an item
\*             being a literal concatenation [kind |-> "concat", parts |-> <<..>>]
\*             or a run of text [kind |-> "text", s |-> string]

\* re.findall(email_pattern, ' '.join(words)): the words are separated by
\* blanks, which the pattern cannot cross; a word of the page either is an
\* address as a whole or holds none.
FindAll(words) == SelectSeq(words, PatternMatch)

\* href.split('?')[0].replace('mailto:', '').strip().lower()
MailtoAddress(href) == Lower(Strip(Remove(SplitHead(href, "?"), "mailto:")))

\* chr(int(m.group(1))) for the numeric entities of the pages
EntityChr(c) ==
  CASE c = "&#64;" -> "@"
    [] c = "&#46;" -> "."
    [] c = "&#74;" -> "J"
    [] c = "&#106;" -> "j"
    [] OTHER -> c

\* re.sub(r'&#(\d+);', lambda m: chr(int(m.group(1))), text)
EntityDecode(s) == [i \in DOMAIN s |-> EntityChr(s[i])]

extract_emails_from_text(words) ==
  LET matches == FindAll(words)
  IN  { Strip(Lower(matches[i])) : i \in { j \in DOMAIN matches :
                                   validate_email(Strip(Lower(matches[j]))) } }

\* concat_pattern: 'local' + '@' + 'domain.tld'
ConcatMatch(item) ==
  /\ item.kind = "concat"
  /\ Len(item.parts) = 3
  /\ item.parts[1] # <<>> /\ AllIn(item.parts[1], LocalCh)
  /\ item.parts[2] = <<"@">>
  /\ DomainTldMatch(item.parts[3])

\* what a concatenation match contributes (line 49)
ConcatEmail(reconstructed) == reconstructed

extract_obfuscated_emails(script) ==
  LET matches == SelectSeq(script, ConcatMatch)
      recon(i) == Join(matches[i].parts)
      texts == SelectSeq(script, LAMBDA it : it.kind = "text")
      text_decoded == [i \in DOMAIN texts |-> EntityDecode(texts[i].s)]
  IN  { ConcatEmail(recon(i)) : i \in { j \in DOMAIN matches :
            (\E k \in DOMAIN recon(j) : recon(j)[k] = "@") /\ validate_email(recon(j)) } }
      \cup extract_emails_from_text(text_decoded)

extract_emails(soup) ==
  LET mail == SelectSeq(soup.anchors, LAMBDA a : StartsWith(a.href, <<"mailto:">>))
      potential_emails == FindAll(soup.words)
  IN  { MailtoAddress(mail[i].href) : i \in { j \in DOMAIN mail :
            validate_email(MailtoAddress(mail[j].href)) } }
      \cup { Lower(potential_emails[i]) : i \in { j \in DOMAIN potential_emails :
            validate_email(potential_emails[j]) } }
      \cup UNION { extract_obfuscated_emails(soup.scripts[i]) : i \in DOMAIN soup.scripts }

\* ------------------------------------------------------------- discovery

keywords ==
  { <<"contact">>, <<"about">>, <<"reach">>, <<"support">>, <<"help">>,
    <<"info">>, <<"team">>, <<"staff">>, <<"brokers">>,
    <<"get", " ", "in", " ", "touch">>, <<"our", " ", "people">>,
    <<"meet", " ", "the", " ", "team">>, <<"directory">>,
    <<"contact", " ", "us">>, <<"about", " ", "us">>, <<"reach", " ", "us">> }

SchemeSyms == {"http://", "https://", "ftp://", "mailto:"}

\* urlparse(u).scheme
SchemeOf(u) ==
  IF u # <<>> /\ Head(u) \in SchemeSyms
  THEN CASE Head(u) = "http://" -> "http"
         [] Head(u) = "https://" -> "https"
         [] Head(u) = "ftp://" -> "ftp"
         [] OTHER -> "mailto"
  ELSE ""

HasNetloc(u) ==
  /\ Len(u) >= 2
  /\ Head(u) \in {"http://", "https://", "ftp://"}
  /\ u[2] # "/"

\* urlparse(u).netloc
NetlocOf(u) == IF HasNetloc(u) THEN u[2] ELSE ""

\* urlparse(u).path
PathOf(u) ==
  IF HasNetloc(u) THEN SubSeq(u, 3, Len(u))
  ELSE IF SchemeOf(u) # "" THEN Tail(u)
  ELSE u

\* urljoin(base, href)
urljoin(base, href) ==
  IF href = <<>> THEN base
  ELSE IF SchemeOf(href) # "" THEN href
  ELSE IF HasNetloc(base) THEN <<base[1], base[2]>> \o href
  ELSE href

find_subpage_urls(soup, base_url) ==
  LET base_netloc == NetlocOf(base_url)
      hit(a) ==
        LET link_text == Lower(Strip(a.text))
            abs_url == urljoin(base_url, a.href)
        IN  /\ \E kw \in keywords :
                 IsSubstr(kw, link_text) \/ IsSubstr(kw, Lower(PathOf(abs_url)))
            /\ NetlocOf(abs_url) = base_netloc
            /\ SchemeOf(abs_url) \in {"http", "https"}
  IN  { urljoin(base_url, soup.anchors[i].href) :
          i \in { j \in DOMAIN soup.anchors : hit(soup.anchors[j]) } }

\* ------------------------------------------------------------- the web
\* The sites the crawls run against: what a rendered page holds, and how a
\* fetch attempt of a URL can end.

NoPage == [anchors |-> <<>>, words |-> <<>>, scripts |-> <<>>]

UrlA == <<"https://", "a.org">>
UrlAContact == <<"https://", "a.org", "/", "contact">>
UrlAPeople == <<"https://", "a.org", "/", "p">>
UrlHttpA == <<"http://", "a.org">>
UrlB == <<"https://", "b.org">>
UrlBTeam == <<"https://", "b.org", "/", "team">>

PageA ==
  [anchors |-> << [href |-> <<"mailto:", "I", "@", "a", ".", "c", "o", "?", "s">>,
                   text |-> <<"mail">>],
                  [href |-> <<"/", "contact">>, text |-> <<"x">>],
                  [href |-> <<"/", "p">>, text |-> <<" ", "about", " ", "us">>],
                  [href |-> <<>>, text |-> <<"info">>],
                  [href |-> <<"https://", "b.org", "/", "contact">>, text |-> <<"contact">>],
                  [href |-> <<"/", "blog">>, text |-> <<"blog">>] >>,
   words |-> << <<"i", "@", "a", ".", "c", "o">>,
                <<"a", "@", "e", "x", "a", "m", "p", "l", "e", ".", "c", "o", "m">>,
                <<"n", "o", "n", "e">> >>,
   scripts |-> <<>>]

PageAContact ==
  [anchors |-> << [href |-> <<"/", "team">>, text |-> <<"team">>] >>,
   words |-> << <<"C", "@", "a", ".", "c", "o">> >>,
   scripts |-> << << [kind |-> "concat",
                      parts |-> << <<"J">>, <<"@">>, <<"a", ".", "c", "o">> >>] >> >>]

PageAPeople ==
  [anchors |-> <<>>,
   words |-> <<>>,
   scripts |-> << << [kind |-> "text", s |-> <<"&#106;", "&#64;", "a", ".", "c", "o">>],
                     [kind |-> "text", s |-> <<"v", "a", "r">>] >> >>]

PageHttpA ==
  [anchors |-> << [href |-> <<"/", "contact">>, text |-> <<"x">>] >>,
   words |-> << <<"h", "@", "a", ".", "c", "o">> >>,
   scripts |-> <<>>]

PageB ==
  [anchors |-> << [href |-> <<"/", "team">>, text |-> <<"team">>],
                  [href |-> <<>>, text |-> <<"about", " ", "us">>] >>,
   words |-> << <<"B", "@", "b", ".", "c", "o">> >>,
   scripts |-> <<>>]

\* BeautifulSoup(response.html.html) of a fetch that succeeded
Web(url) ==
  CASE url = UrlA -> PageA
    [] url = UrlAContact -> PageAContact
    [] url = UrlAPeople -> PageAPeople
    [] url = UrlHttpA -> PageHttpA
    [] url = UrlB -> PageB
    [] OTHER -> NoPage

\* How session.get + render of url can end: "ok", a requests.RequestException
\* (connection error, timeout, invalid URL), or any other exception (the
\* render wait failing raises requests_html.MaxRetries or a pyppeteer error,
\* none of which is a RequestException).  The pages of a.org can end any
\* way; the home page of b.org always loads and its /team page never
\* renders; any other URL is unreachable.
Outcomes(url) ==
  CASE url \in {UrlA, UrlAContact, UrlAPeople, UrlHttpA} ->
         {"ok", "RequestException", "Exception"}
    [] url = UrlB -> {"ok"}
    [] url = UrlBTeam -> {"Exception"}
    [] OTHER -> {"RequestException"}

\* Lines 139-141 on each page of the web, worked out once per URL: the emails
\* extract_emails finds in it and the links find_subpage_urls keeps
SoupOf(url) ==
  [emails |-> extract_emails(Web(url)), links |-> find_subpage_urls(Web(url), url)]

SoupA == SoupOf(UrlA)
SoupAContact == SoupOf(UrlAContact)
SoupAPeople == SoupOf(UrlAPeople)
SoupHttpA == SoupOf(UrlHttpA)
SoupB == SoupOf(UrlB)

Parsed(url) ==
  CASE url = UrlA -> SoupA
    [] url = UrlAContact -> SoupAContact
    [] url = UrlAPeople -> SoupAPeople
    [] url = UrlHttpA -> SoupHttpA
    [] url = UrlB -> SoupB
    [] OTHER -> [emails |-> {}, links |-> {}]

\* The orders in which a set can be iterated: list(a_set), a_list.extend(a_set)
RECURSIVE ListsOf(_)
ListsOf(S) ==
  IF S = {} THEN {<<>>}
  ELSE UNION { { <<x>> \o l : l \in ListsOf(S \ {x}) } : x \in S }

\* ------------------------------------------------------------ the state

MaxSub == 3      \* largest max_subpages a crawl is called with
MaxTries == 3    \* largest max_retries a crawl is called with
MaxUrls == 2     \* largest batch (rows of the uploaded sheet)
MaxRows == 500   \* largest sheet the pool is sized for
MaxCap == 10     \* largest multiprocessing.cpu_count() the pool is sized for

DefaultMaxSubpages == 10
DefaultMaxRetries == 2
DefaultDelayLo == 1
DefaultDelayHi == 3

Procs == 1..MaxUrls

VARIABLES
  job,          \* job[p]: the find_emails call running in process p
  urls,         \* df[url_column]: the batch, in input order
  cpu_count,    \* multiprocessing.cpu_count()
  phase,        \* process_file: "request", "running", "done", "failed", "off"
  num_workers,  \* the size of the pool
  queue,        \* work ids (positions of urls) not yet taken by a process
  task,         \* task[p]: the work id process p runs, 0 when idle
  done_items,   \* the result items, in completion order
  results,      \* what process_urls_in_parallel returns
  started,      \* history: started[i], how many times position i was taken
  sizing,       \* a call of get_optimal_workers on its own
  validation    \* a call of validate_email on its own

vars == <<job, urls, cpu_count, phase, num_workers, queue, task, done_items,
          results, started, sizing, validation>>

batchVars == <<urls, cpu_count, phase, num_workers, queue, task, done_items,
               results, started, sizing, validation>>

NoSizing == [pc |-> "off", file_size |-> 0, cpu |-> 0, workers |-> 0]

NoValidation == [pc |-> "off", email |-> <<>>, result |-> FALSE]

IdleJob ==
  [pc |-> "idle", seed |-> <<>>, base_url |-> <<>>, max_subpages |-> 0,
   max_retries |-> 0, delay |-> <<0, 0>>, visited_urls |-> {},
   all_emails |-> {}, subpages_to_visit |-> <<>>, pages_visited |-> 0,
   url |-> <<>>, is_base |-> FALSE, attempt |-> 0, emails |-> {},
   subpages |-> <<>>, ret |-> <<>>, raised |-> FALSE, trace |-> <<>>]

\* ----------------------------------------------------------- find_emails

\* lines 161-162 left out: the seed is used as given
NormalizeSeedNot(base_url) == base_url

\* lines 161-162
NormalizeSeed(base_url) ==
  IF StartsWith(base_url, <<"http://">>) \/ StartsWith(base_url, <<"https://">>)
  THEN base_url
  ELSE <<"https://">> \o base_url

\* find_emails is called: lines 157-172, up to the call of process_url on the
\* base URL
FindEmailsEnter(seed, max_subpages, max_retries, delay) ==
  [IdleJob EXCEPT !.pc = "call", !.seed = seed,
                  !.base_url = NormalizeSeed(seed),
                  !.max_subpages = max_subpages, !.max_retries = max_retries,
                  !.delay = delay,
                  !.url = NormalizeSeed(seed), !.is_base = TRUE]

\* line 133 left out: the URL is never marked
MarkVisitedNot(visited_urls, url) == visited_urls

\* line 133 rebinding the set: visited_urls = {url}
MarkVisitedOnly(visited_urls, url) == {url}

\* line 133: visited_urls.add(url)
MarkVisited(visited_urls, url) == visited_urls \cup {url}

\* process_url lines 127-133: the visited gate; past it the URL is marked and
\* the fetch of it begins (the "fetch" event of the trace)
ProcessUrlEnter(p) ==
  /\ job[p].pc = "call"
  /\ job' = [job EXCEPT ![p] =
       IF @.url \in @.visited_urls
       THEN [@ EXCEPT !.pc = "ret", !.emails = {}, !.subpages = <<>>]
       ELSE [@ EXCEPT !.pc = "loop", !.emails = {}, !.subpages = <<>>,
                      !.attempt = 0,
                      !.visited_urls = MarkVisited(@, job[p].url),
                      !.trace = Append(@, [ev |-> "fetch", url |-> job[p].url,
                                           base |-> job[p].is_base])]]
  /\ UNCHANGED batchVars

\* line 135: for attempt in range(max_retries)
MoreAttempts(attempt, max_retries) == attempt < max_retries

\* line 145: whether a failed attempt is followed by a backoff sleep
SleepsAfter(attempt, max_retries) == attempt < max_retries - 1

\* line 146 with the attempt counted from 0: 2 * attempt
BackoffFromZero(attempt) == 2 * attempt

\* line 146: the backoff after the failed attempt numbered attempt (from 0)
Backoff(attempt) == 2 * (attempt + 1)

\* lines 136-142: an attempt that succeeds
AttemptOk(p) ==
  /\ job[p].pc = "loop"
  /\ MoreAttempts(job[p].attempt, job[p].max_retries)
  /\ "ok" \in Outcomes(job[p].url)
  /\ \E found \in ListsOf(Parsed(job[p].url).links) :
       job' = [job EXCEPT ![p] =
         [@ EXCEPT !.pc = "ret",
                   !.emails = Parsed(job[p].url).emails,
                   !.subpages = found,
                   !.trace = Append(@, [ev |-> "get", url |-> job[p].url,
                                        attempt |-> job[p].attempt,
                                        out |-> "ok"])]]
  /\ UNCHANGED batchVars

\* lines 143-146: an attempt that fails with a RequestException
AttemptFails(p) ==
  /\ job[p].pc = "loop"
  /\ MoreAttempts(job[p].attempt, job[p].max_retries)
  /\ "RequestException" \in Outcomes(job[p].url)
  /\ job' = [job EXCEPT ![p] =
       [@ EXCEPT !.attempt = @ + 1,
                 !.trace = Append(@, [ev |-> "get", url |-> job[p].url,
                                      attempt |-> job[p].attempt,
                                      out |-> "RequestException"])
                           \o (IF SleepsAfter(job[p].attempt, job[p].max_retries)
                               THEN << [ev |-> "backoff",
                                        secs |-> Backoff(job[p].attempt)] >>
                               ELSE <<>>)]]
  /\ UNCHANGED batchVars

\* An attempt that raises anything else: not caught in process_url, caught by
\* find_emails at line 194, which goes on to line 197
AttemptRaises(p) ==
  /\ job[p].pc = "loop"
  /\ MoreAttempts(job[p].attempt, job[p].max_retries)
  /\ "Exception" \in Outcomes(job[p].url)
  /\ job' = [job EXCEPT ![p] =
       [@ EXCEPT !.pc = "return", !.raised = TRUE,
                 !.trace = Append(@, [ev |-> "get", url |-> job[p].url,
                                      attempt |-> job[p].attempt,
                                      out |-> "Exception"])]]
  /\ UNCHANGED batchVars

\* lines 147-150: the loop ran out of attempts
GiveUp(p) ==
  /\ job[p].pc = "loop"
  /\ ~ MoreAttempts(job[p].attempt, job[p].max_retries)
  /\ job' = [job EXCEPT ![p] = [@ EXCEPT !.pc = "ret"]]
  /\ UNCHANGED batchVars

\* line 179 run after every call of process_url, the calls of line 189 too
EnqueueAll(subpages_to_visit, subpages, is_base) == subpages_to_visit \o subpages

\* line 179: what find_emails keeps of the links of a page
Enqueue(subpages_to_visit, subpages, is_base) ==
  IF is_base THEN subpages_to_visit \o subpages ELSE subpages_to_visit

\* all_emails rebound to the emails of the page just processed
FoldLast(all_emails, emails) == emails

\* lines 173 and 190: all_emails.update(emails)
Fold(all_emails, emails) == all_emails \cup emails

\* process_url returns to find_emails: lines 172-180 for the base URL, lines
\* 189-192 for a subpage
ProcessUrlReturn(p) ==
  /\ job[p].pc = "ret"
  /\ job' = [job EXCEPT ![p] =
       [@ EXCEPT !.pc = "drain",
                 !.all_emails = Fold(@, job[p].emails),
                 !.subpages_to_visit = Enqueue(@, job[p].subpages, job[p].is_base),
                 !.pages_visited = IF job[p].is_base THEN 1 ELSE @ + 1]]
  /\ UNCHANGED batchVars

\* line 181 without the budget: while subpages_to_visit
KeepDrainingNoBudget(subpages_to_visit, pages_visited, max_subpages) ==
  subpages_to_visit # <<>>

\* line 181: the loop condition
KeepDraining(subpages_to_visit, pages_visited, max_subpages) ==
  subpages_to_visit # <<>> /\ pages_visited < max_subpages

\* line 183: the entry is skipped
AlreadyVisited(current_url, visited_urls) == current_url \in visited_urls

\* a skipped entry counted as a page: pages_visited += 1 before the continue
AfterSkipCounted(pages_visited) == pages_visited + 1

\* lines 183-184: continue leaves pages_visited as it is
AfterSkip(pages_visited) == pages_visited

\* lines 181-184 reading subpages_to_visit[0] where the code pops: the entry
\* stays at the front and the loop meets it again
DrainSkipNoPop(p) ==
  /\ job[p].pc = "drain"
  /\ KeepDraining(job[p].subpages_to_visit, job[p].pages_visited, job[p].max_subpages)
  /\ AlreadyVisited(Head(job[p].subpages_to_visit), job[p].visited_urls)
  /\ UNCHANGED vars

\* lines 181-184: pop an entry that was visited already
DrainSkip(p) ==
  /\ job[p].pc = "drain"
  /\ KeepDraining(job[p].subpages_to_visit, job[p].pages_visited, job[p].max_subpages)
  /\ AlreadyVisited(Head(job[p].subpages_to_visit), job[p].visited_urls)
  /\ job' = [job EXCEPT ![p] =
       [@ EXCEPT !.subpages_to_visit = Tail(@),
                 !.pages_visited = AfterSkip(@),
                 !.trace = Append(@, [ev |-> "skip",
                                      url |-> Head(job[p].subpages_to_visit)])]]
  /\ UNCHANGED batchVars

\* a pause drawn from 0 up to the upper end of the range
DelayFromZero(delay) == 0..delay[2]

\* line 186: random.uniform(delay[0], delay[1])
DelayChoices(delay) == (delay[1])..(delay[2])

\* lines 181-189: pop an entry, sleep, call process_url on it
DrainVisit(p) ==
  /\ job[p].pc = "drain"
  /\ KeepDraining(job[p].subpages_to_visit, job[p].pages_visited, job[p].max_subpages)
  /\ ~ AlreadyVisited(Head(job[p].subpages_to_visit), job[p].visited_urls)
  /\ \E d \in DelayChoices(job[p].delay) :
       job' = [job EXCEPT ![p] =
         [@ EXCEPT !.pc = "call", !.is_base = FALSE,
                   !.url = Head(job[p].subpages_to_visit),
                   !.subpages_to_visit = Tail(@),
                   !.trace = Append(@, [ev |-> "delay", secs |-> d])]]
  /\ UNCHANGED batchVars

\* line 181 false: the loop ends
DrainEnd(p) ==
  /\ job[p].pc = "drain"
  /\ ~ KeepDraining(job[p].subpages_to_visit, job[p].pages_visited, job[p].max_subpages)
  /\ job' = [job EXCEPT ![p] = [@ EXCEPT !.pc = "return"]]
  /\ UNCHANGED batchVars

\* line 197: return list(all_emails)
FindEmailsReturn(p) ==
  /\ job[p].pc = "return"
  /\ \E l \in ListsOf(job[p].all_emails) :
       job' = [job EXCEPT ![p] = [@ EXCEPT !.pc = "done", !.ret = l]]
  /\ UNCHANGED batchVars

JobStep(p) ==
  \/ ProcessUrlEnter(p)
  \/ AttemptOk(p)
  \/ AttemptFails(p)
  \/ AttemptRaises(p)
  \/ GiveUp(p)
  \/ ProcessUrlReturn(p)
  \/ DrainSkip(p)
  \/ DrainVisit(p)
  \/ DrainEnd(p)
  \/ FindEmailsReturn(p)

\* ------------------------------------------- one crawl, called directly

SeedInputs ==
  { <<"a.org">>, <<"https://", "a.org">>, <<"http://", "a.org">>,
    <<"ftp://", "a.org">>, <<>> }

DelayRanges == { <<1, 2>> }

Init ==
  /\ \E seed \in SeedInputs, m \in 0..MaxSub, r \in 0..MaxTries, d \in DelayRanges :
       job = [p \in Procs |-> IF p = 1 THEN FindEmailsEnter(seed, m, r, d) ELSE IdleJob]
  /\ urls = <<>>
  /\ cpu_count = 1
  /\ phase = "off"
  /\ num_workers = 0
  /\ queue = <<>>
  /\ task = [p \in Procs |-> 0]
  /\ done_items = <<>>
  /\ results = <<>>
  /\ started = <<>>
  /\ sizing = NoSizing
  /\ validation = NoValidation

Next == JobStep(1)

Spec == Init /\ [][Next]_vars

\* ------------------------------------------------------------ the batch

Min2(a, b) == IF a <= b THEN a ELSE b
Min3(a, b, c) == Min2(a, Min2(b, c))

\* lines 27 and 29 with < for <=
get_optimal_workersLt(file_size, cpu) ==
  IF file_size < 100 THEN Min3(cpu, 4, file_size)
  ELSE IF file_size < 300 THEN Min3(cpu, 8, file_size)
  ELSE Min3(cpu * 2, 16, file_size)

\* app.py lines 24-32, cpu being multiprocessing.cpu_count()
get_optimal_workers(file_size, cpu) ==
  IF file_size <= 100 THEN Min3(cpu, 4, file_size)
  ELSE IF file_size <= 300 THEN Min3(cpu, 8, file_size)
  ELSE Min3(cpu * 2, 16, file_size)

\* process_file lines 76-79 and process_urls_in_parallel line 47: the pool is
\* sized and built (ProcessPoolExecutor raises ValueError for max_workers <= 0,
\* which process_file turns into a 500 response at line 97), and map submits
\* one work item per row, in input order
ProcessFile ==
  /\ phase = "request"
  /\ num_workers' = get_optimal_workers(Len(urls), cpu_count)
  /\ IF num_workers' <= 0
     THEN phase' = "failed" /\ UNCHANGED queue
     ELSE phase' = "running" /\ queue' = [i \in 1..Len(urls) |-> i]
  /\ UNCHANGED <<job, urls, cpu_count, task, done_items, results, started, sizing, validation>>

\* A pool that starts a process for every work item
InPoolAny(p, max_workers) == TRUE

\* line 47: ProcessPoolExecutor(max_workers=num_workers) runs at most
\* max_workers processes
InPool(p, max_workers) == p <= max_workers

\* worker lines 34-38: a process of the pool takes the next work item and
\* calls find_emails(url) with its defaults
WorkerTake(p) ==
  /\ phase = "running"
  /\ InPool(p, num_workers)
  /\ task[p] = 0
  /\ queue # <<>>
  /\ task' = [task EXCEPT ![p] = Head(queue)]
  /\ queue' = Tail(queue)
  /\ started' = [started EXCEPT ![Head(queue)] = @ + 1]
  /\ job' = [job EXCEPT ![p] =
       FindEmailsEnter(urls[Head(queue)], DefaultMaxSubpages, DefaultMaxRetries,
                       <<DefaultDelayLo, DefaultDelayHi>>)]
  /\ UNCHANGED <<urls, cpu_count, phase, num_workers, done_items, results, sizing, validation>>

\* worker lines 36-43: the list find_emails returned, [] had it raised
WorkerResult(j) == IF j.pc = "done" THEN j.ret ELSE <<>>

\* worker returns: the result item (work id, result) goes back to the parent;
\* job is the crawl that produced it, kept as history
WorkerFinish(p) ==
  /\ task[p] # 0
  /\ job[p].pc \in {"done", "failed"}
  /\ done_items' = Append(done_items, [id |-> task[p], ret |-> WorkerResult(job[p]),
                                       job |-> job[p]])
  /\ task' = [task EXCEPT ![p] = 0]
  /\ job' = [job EXCEPT ![p] = IdleJob]
  /\ UNCHANGED <<urls, cpu_count, phase, num_workers, queue, results, started, sizing, validation>>

\* results taken in the order the jobs completed
MapResultsAsCompleted(items, n) == [i \in 1..n |-> items[i].ret]

\* line 48: list(executor.map(...)) yields each work item's result by the
\* position at which it was submitted
MapResults(items, n) ==
  [i \in 1..n |-> items[CHOOSE k \in DOMAIN items : items[k].id = i].ret]

\* lines 48-49: every result is in, the pool shuts down, the list is returned
Collect ==
  /\ phase = "running"
  /\ queue = <<>>
  /\ \A p \in Procs : task[p] = 0
  /\ results' = MapResults(done_items, Len(urls))
  /\ phase' = "done"
  /\ UNCHANGED <<job, urls, cpu_count, num_workers, queue, task, done_items, started, sizing, validation>>

\* The rows of the sheet: a site given without scheme, and an empty cell
\* ('nan' replaced by '' at line 74)
BatchSeeds == { <<"b.org">>, <<>> }

RECURSIVE SeqsUpTo(_, _)
SeqsUpTo(S, n) ==
  IF n = 0 THEN {<<>>}
  ELSE SeqsUpTo(S, n - 1)
       \cup { Append(q, x) : q \in { r \in SeqsUpTo(S, n - 1) : Len(r) = n - 1 }, x \in S }

\* The machines the batch runs on: one core, two cores
CpuCounts == {1, 2}

InitBatch ==
  /\ urls \in SeqsUpTo(BatchSeeds, MaxUrls)
  /\ cpu_count \in CpuCounts
  /\ job = [p \in Procs |-> IdleJob]
  /\ phase = "request"
  /\ num_workers = 0
  /\ queue = <<>>
  /\ task = [p \in Procs |-> 0]
  /\ done_items = <<>>
  /\ results = <<>>
  /\ started = [i \in 1..Len(urls) |-> 0]
  /\ sizing = NoSizing
  /\ validation = NoValidation

NextBatch ==
  \/ ProcessFile
  \/ \E p \in Procs : WorkerTake(p)
  \/ \E p \in Procs : JobStep(p)
  \/ \E p \in Procs : WorkerFinish(p)
  \/ Collect

SpecBatch == InitBatch /\ [][NextBatch]_vars

\* ------------------------------------ get_optimal_workers, called directly

InitSizing ==
  /\ \E n \in 0..MaxRows, c \in 1..MaxCap :
       sizing = [pc |-> "call", file_size |-> n, cpu |-> c, workers |-> 0]
  /\ job = [p \in Procs |-> IdleJob]
  /\ urls = <<>>
  /\ cpu_count = 1
  /\ phase = "off"
  /\ num_workers = 0
  /\ queue = <<>>
  /\ task = [p \in Procs |-> 0]
  /\ done_items = <<>>
  /\ results = <<>>
  /\ started = <<>>
  /\ validation = NoValidation

Size ==
  /\ sizing.pc = "call"
  /\ sizing' = [sizing EXCEPT !.pc = "sized",
                  !.workers = get_optimal_workers(sizing.file_size, sizing.cpu)]
  /\ UNCHANGED <<job, urls, cpu_count, phase, num_workers, queue, task,
                 done_items, results, started, validation>>

NextSizing == Size

SpecSizing == InitSizing /\ [][NextSizing]_vars

\* ------------------------------------------------- crawls that keep running
\* The crawls of Spec and the batches of SpecBatch together, with the
\* scheduling the program has: a process that can execute its next step does so
\* (each fetch attempt ends, by its timeout at the latest, and each sleep
\* ends), so the program never halts while a step is possible.

InitLive == Init \/ InitBatch

Fairness == WF_vars(NextBatch)

SpecLive == InitLive /\ [][NextBatch]_vars /\ Fairness

\* ----------------------------------------- validate_email, called directly

\* The candidates: local part, at signs, domain, top-level label and what
\* follows, put together
CandLocals ==
  { <<"a">>, <<"A", ".", "b">>, <<>>, <<"a", " ">>,
    <<"j", "1", "2", "3", "-", "4", "5", "6", "-", "7", "8", "9", "0">>,
    <<"1", "2", "-", "3", "4", "5", "-", "6", "7", "8", "9">>,
    <<"u", "s", "e", "r", "n", "a", "m", "e">> }

CandAts == { <<"@">>, <<>>, <<"@", "@">> }

CandDomains ==
  { <<"b">>, <<"e", "x", "a", "m", "p", "l", "e">>,
    <<"E", "x", "a", "m", "p", "l", "e">>, <<"d", "o", "m", "a", "i", "n">>,
    <<"b", "_">>, <<"1", "1", "1", "-", "2", "2", "2", "-", "3", "3", "3", "3">>,
    <<>> }

CandTlds ==
  { <<".", "c", "o">>, <<".", "c", "o", "m">>, <<".", "c">>, <<".", "c", "0">>,
    <<>> }

CandEnds == { <<>>, <<"\n">>, <<" ">> }

Candidates ==
  { l \o a \o d \o t \o e :
      l \in CandLocals, a \in CandAts, d \in CandDomains, t \in CandTlds,
      e \in CandEnds }
  \cup { <<"j", "o", "h", "n", "1", "2", "3", "-", "4", "5", "6", "-",
           "7", "8", "9", "0", "@", "s", "i", "t", "e", ".", "c", "o", "m">> }

InitValidate ==
  /\ \E c \in Candidates : validation = [pc |-> "call", email |-> c, result |-> FALSE]
  /\ sizing = NoSizing
  /\ job = [p \in Procs |-> IdleJob]
  /\ urls = <<>>
  /\ cpu_count = 1
  /\ phase = "off"
  /\ num_workers = 0
  /\ queue = <<>>
  /\ task = [p \in Procs |-> 0]
  /\ done_items = <<>>
  /\ results = <<>>
  /\ started = <<>>

Validate ==
  /\ validation.pc = "call"
  /\ validation' = [validation EXCEPT !.pc = "returned",
                                      !.result = validate_email(validation.email)]
  /\ UNCHANGED <<job, urls, cpu_count, phase, num_workers, queue, task,
                 done_items, results, started, sizing>>

NextValidate == Validate

SpecValidate == InitValidate /\ [][NextValidate]_vars

\* ---------------------------------------------------- reading the trace

\* The pages handed to the fetcher after the base URL
NonSeedFetched(j) ==
  Len(SelectSeq(j.trace, LAMBDA e : e.ev = "fetch" /\ ~ e.base))

\* The events of the fetch in progress (or the last one): what follows the
\* last "fetch" event
LastFetchAt(tr) ==
  IF \E i \in DOMAIN tr : tr[i].ev = "fetch"
  THEN CHOOSE i \in DOMAIN tr :
         tr[i].ev = "fetch" /\ \A k \in (i + 1)..Len(tr) : tr[k].ev # "fetch"
  ELSE 0

FetchSegment(tr) == SubSeq(tr, LastFetchAt(tr) + 1, Len(tr))

\* process_url is about to return after attempts that all failed with a
\* RequestException (or after no attempt at all)
GaveUp(j) ==
  /\ j.pc = "ret"
  /\ LastFetchAt(j.trace) > 0
  /\ j.trace[LastFetchAt(j.trace)].url = j.url
  /\ \A i \in DOMAIN FetchSegment(j.trace) :
       FetchSegment(j.trace)[i].ev = "get" =>
         FetchSegment(j.trace)[i].out = "RequestException"

\* n failed attempts on url, with a sleep of 2*k seconds after the k-th of
\* them whenever another attempt follows
FailedAttempts(url, n) ==
  [i \in 1..(IF n = 0 THEN 0 ELSE 2 * n - 1) |->
     IF i % 2 = 1
     THEN [ev |-> "get", url |-> url, attempt |-> (i - 1) \div 2,
           out |-> "RequestException"]
     ELSE [ev |-> "backoff", secs |-> i]]

HasScheme(seed) == seed # <<>> /\ Head(seed) \in {"http://", "https://"}

\* ------------------------------------------------------------ the claims

\* C3: in every state of a crawl, whatever max_subpages and whatever the
\* fetches do, the number of non-seed pages fetched so far is at most
\* max_subpages.
InvC3 ==
  \A p \in Procs : NonSeedFetched(job[p]) <= job[p].max_subpages

\* C3 witness: a crawl that stopped on its budget: it fetched subpages, is
\* done, and frontier entries are left over.
WitC3 ==
  \E p \in Procs :
    /\ job[p].pc = "done" /\ ~ job[p].raised
    /\ NonSeedFetched(job[p]) >= 1
    /\ job[p].subpages_to_visit # <<>>

\* C4 (as claimed): a crawl with max_subpages = m whose seed page yields at
\* least m candidate subpages other than the seed, and in which no fetch
\* fails, has fetched exactly m non-seed pages when it is done.
ClaimC4 ==
  \A p \in Procs :
    LET j == job[p]
        candidates == find_subpage_urls(Web(j.base_url), j.base_url) \ {j.base_url}
    IN  ( /\ j.pc = "done" /\ ~ j.raised
          /\ \E i \in DOMAIN j.trace : j.trace[i].ev = "get"
          /\ \A i \in DOMAIN j.trace :
               j.trace[i].ev = "get" => j.trace[i].out = "ok"
          /\ Cardinality(candidates) >= j.max_subpages )
        => NonSeedFetched(j) = j.max_subpages

\* C5: within one crawl no URL is handed to the fetcher twice; every network
\* request belongs to the fetch of its URL, and a frontier entry that is
\* skipped was fetched before and is followed by no request of its own.
InvC5 ==
  \A p \in Procs :
    LET tr == job[p].trace
    IN  /\ \A i, k \in DOMAIN tr :
             (tr[i].ev = "fetch" /\ tr[k].ev = "fetch" /\ tr[i].url = tr[k].url)
               => i = k
        /\ \A i \in DOMAIN tr :
             tr[i].ev = "get" =>
               \E f \in 1..(i - 1) :
                 /\ tr[f].ev = "fetch" /\ tr[f].url = tr[i].url
                 /\ \A m \in (f + 1)..(i - 1) : tr[m].ev \in {"get", "backoff"}
        /\ \A i \in DOMAIN tr :
             tr[i].ev = "skip" =>
               /\ \E f \in 1..(i - 1) : tr[f].ev = "fetch" /\ tr[f].url = tr[i].url
               /\ i < Len(tr) => tr[i + 1].ev \in {"skip", "delay"}

\* C5 witness: a finished crawl whose frontier held the seed URL itself, which
\* was skipped, and that went on to fetch a subpage.
WitC5 ==
  \E p \in Procs :
    /\ job[p].pc = "done"
    /\ \E i \in DOMAIN job[p].trace :
         /\ job[p].trace[i].ev = "skip"
         /\ job[p].trace[i].url = job[p].base_url
         /\ \E k \in (i + 1)..Len(job[p].trace) : job[p].trace[k].ev = "get"

\* C6 (as claimed): a subpage fetch that fails, at the GET or at the render
\* wait, lets no exception out of the fetcher and does not end the crawl: the
\* crawl ends only with the frontier empty or the budget used up.
ClaimC6 ==
  \A p \in Procs :
    (job[p].pc \in {"return", "done"} /\ ~ job[p].is_base)
      => /\ ~ job[p].raised
         /\ ~ KeepDraining(job[p].subpages_to_visit, job[p].pages_visited,
                           job[p].max_subpages)

\* C7 (as claimed): when every attempt fails with a network error the fetcher
\* makes the initial attempt and max_retries retries (max_retries + 1
\* attempts), sleeping 2*k seconds after the k-th failure.
ClaimC7 ==
  \A p \in Procs :
    GaveUp(job[p]) =>
      FetchSegment(job[p].trace) = FailedAttempts(job[p].url, job[p].max_retries + 1)

\* C7 (amended): when every attempt fails with a RequestException the
\* fetcher makes exactly max_retries attempts in all (none when max_retries
\* is 0), sleeps 2*k seconds after the k-th failed attempt when another
\* attempt follows and not after the last, and returns an empty result.
InvC7 ==
  \A p \in Procs :
    GaveUp(job[p]) =>
      /\ FetchSegment(job[p].trace) = FailedAttempts(job[p].url, job[p].max_retries)
      /\ job[p].emails = {}
      /\ job[p].subpages = <<>>

\* C7 witness: a fetch given up after three failed attempts and two sleeps.
WitC7 ==
  \E p \in Procs :
    /\ GaveUp(job[p])
    /\ job[p].max_retries = 3
    /\ Len(FetchSegment(job[p].trace)) = 5

\* C8 (as claimed): every email of a crawl's result is lowercase and no two
\* of them differ only in letter case.
ClaimC8 ==
  \A p \in Procs :
    job[p].pc = "done" =>
      /\ \A i \in DOMAIN job[p].ret : job[p].ret[i] = Lower(job[p].ret[i])
      /\ \A i, k \in DOMAIN job[p].ret :
           Lower(job[p].ret[i]) = Lower(job[p].ret[k]) => job[p].ret[i] = job[p].ret[k]

\* C9: the first URL a crawl fetches is the seed with "https://" put in front
\* when it starts with neither http:// nor https://, and the seed unchanged
\* otherwise; a seed without scheme is never fetched as given.
InvC9 ==
  \A p \in Procs :
    LET j == job[p]
        reqs == SelectSeq(j.trace, LAMBDA e : e.ev \in {"fetch", "get"})
    IN  reqs # <<>> =>
          /\ reqs[1].url = IF HasScheme(j.seed) THEN j.seed
                           ELSE <<"https://">> \o j.seed
          /\ ~ HasScheme(j.seed) => \A i \in DOMAIN reqs : reqs[i].url # j.seed

\* C9 witness: a seed given without scheme whose page was fetched.
WitC9 ==
  \E p \in Procs :
    /\ ~ HasScheme(job[p].seed)
    /\ \E i \in DOMAIN job[p].trace :
         job[p].trace[i].ev = "get" /\ job[p].trace[i].out = "ok"

\* The least element of a set of numbers
Least(S) == CHOOSE m \in S : \A x \in S : m <= x

\* The result item of position i
ItemOf(i) == done_items[CHOOSE k \in DOMAIN done_items : done_items[k].id = i]

\* A crawl that failed: an error ended it, or none of its fetches succeeded
JobFailed(j) ==
  \/ j.raised
  \/ \A i \in DOMAIN j.trace : j.trace[i].ev = "get" => j.trace[i].out # "ok"

\* C1: for a non-empty batch and any completion order, the dispatcher returns
\* as many results as there are URLs, and position i holds what the one job
\* that crawled URL i returned.
InvC1 ==
  (phase = "done" /\ Len(urls) >= 1) =>
    /\ Len(results) = Len(urls)
    /\ \A i \in 1..Len(urls) :
         /\ Cardinality({k \in DOMAIN done_items : done_items[k].id = i}) = 1
         /\ ItemOf(i).job.seed = urls[i]
         /\ results[i] = ItemOf(i).job.ret

\* C1 witness: a batch returned whose second job completed first, with
\* results that differ between the two positions.
WitC1 ==
  /\ phase = "done"
  /\ Len(urls) = 2
  /\ done_items[1].id = 2
  /\ results[1] # results[2]
  /\ results[2] # <<>>

InvC10 ==
  LET n == sizing.file_size
      c == sizing.cpu
      w == sizing.workers
  IN  (sizing.pc = "sized" /\ n >= 1) =>
        /\ n <= 100 => w = Least({c, 4, n})
        /\ (100 < n /\ n <= 300) => w = Least({c, 8, n})
        /\ n > 300 => w = Least({2 * c, 16, n})
        /\ 1 <= w /\ w <= n /\ w <= 16
        /\ (c = 8 /\ n = 50) => w = 4
        /\ (c = 8 /\ n = 150) => w = 8
        /\ (c = 8 /\ n = 500) => w = 16

\* C10 witness: 500 rows sized on 8 cores.
WitC10 ==
  /\ sizing.pc = "sized"
  /\ sizing.file_size = 500
  /\ sizing.cpu = 8
  /\ sizing.workers = 16

Returned ==
  \/ phase = "off" /\ job[1].pc = "done"
  \/ /\ phase = "done"
     /\ Len(results) = Len(urls)
     /\ \A i \in DOMAIN urls :
          \E k \in DOMAIN done_items :
            done_items[k].id = i /\ done_items[k].job.pc = "done"
  \/ phase = "failed" /\ urls = <<>>

LiveC12 == <>Returned

\* C12 witness: a batch of two rows returned, one of whose crawls was ended by
\* an error and the other by fetches that all failed.
WitC12 ==
  /\ phase = "done"
  /\ Len(urls) = 2
  /\ \E i, k \in DOMAIN done_items :
       /\ done_items[i].job.raised
       /\ ~ done_items[k].job.raised
       /\ \E e \in DOMAIN done_items[k].job.trace :
            done_items[k].job.trace[e].ev = "backoff"

\* C13: once the seed page has been processed the frontier of a crawl only
\* shrinks, by the entry at its front, one per step of the loop: the links
\* found on a subpage are never added; and every page handed to the fetcher
\* after the seed is a link found on the seed page.
StepC13(p) ==
  /\ job[p].pages_visited >= 1 =>
       \/ job'[p].subpages_to_visit = job[p].subpages_to_visit
       \/ /\ job[p].subpages_to_visit # <<>>
          /\ job'[p].subpages_to_visit = Tail(job[p].subpages_to_visit)
  /\ \A e \in DOMAIN job'[p].trace :
       job'[p].trace[e].ev = "fetch" /\ ~ job'[p].trace[e].base =>
         job'[p].trace[e].url \in Parsed(job'[p].base_url).links

ActC13 == [][StepC13(1)]_vars

\* C13 witness: a crawl is done that fetched a subpage with links of its own.
WitC13 ==
  /\ job[1].pc = "done"
  /\ \E e \in DOMAIN job[1].trace :
       /\ job[1].trace[e].ev = "get"
       /\ job[1].trace[e].out = "ok"
       /\ job[1].trace[e].url # job[1].base_url
       /\ Parsed(job[1].trace[e].url).links # {}

\* C14: every position of the batch is crawled by one job, once: it waits in
\* the queue, or runs in one process, or has one result, never two of these;
\* when the batch is returned every position has been crawled once, a URL at
\* two positions twice; and the jobs that run at a time are never more than
\* the workers.
Running(i) == {p \in Procs : task[p] = i}

Finished(i) == {k \in DOMAIN done_items : done_items[k].id = i}

Queued(i) == {k \in DOMAIN queue : queue[k] = i}

InvC14 ==
  phase \in {"running", "done"} =>
    /\ Cardinality({p \in Procs : task[p] # 0}) <= num_workers
    /\ \A i \in DOMAIN urls :
         /\ started[i] <= 1
         /\ Cardinality(Queued(i)) + Cardinality(Running(i))
              + Cardinality(Finished(i)) = 1
         /\ started[i] = Cardinality(Running(i)) + Cardinality(Finished(i))
         /\ \A p \in Running(i) : job[p].seed = urls[i]
         /\ \A k \in Finished(i) : done_items[k].job.seed = urls[i]
         /\ phase = "done" => Cardinality(Finished(i)) = 1
    /\ Len(done_items) <= Len(urls)

\* C14 witness: a batch is returned that held the same site at both positions
\* and ran on a single worker: the site was crawled twice.
WitC14 ==
  /\ phase = "done"
  /\ Len(urls) = 2
  /\ urls[1] = urls[2]
  /\ urls[1] # <<>>
  /\ num_workers = 1
  /\ started[1] = 1 /\ started[2] = 1
  /\ done_items[1].job.trace # <<>> /\ done_items[2].job.trace # <<>>

\* C15: when a crawl is done, what it returns holds, once each, the emails
\* extracted from the pages it fetched successfully, the seed page and the
\* subpages, and nothing else; so too when an unexpected error ended it.
FetchedOk(j) ==
  {j.trace[e].url : e \in {i \in DOMAIN j.trace :
                              j.trace[i].ev = "get" /\ j.trace[i].out = "ok"}}

InvC15 ==
  job[1].pc = "done" =>
    /\ Range(job[1].ret) = UNION {Parsed(u).emails : u \in FetchedOk(job[1])}
    /\ Len(job[1].ret) = Cardinality(Range(job[1].ret))

\* C15 witness: a crawl ended by an error returns the emails of the two pages
\* it had fetched before.
WitC15 ==
  /\ job[1].pc = "done"
  /\ job[1].raised
  /\ Cardinality(FetchedOk(job[1])) = 2
  /\ \E u \in FetchedOk(job[1]) :
       ~ (Parsed(u).emails \subseteq Parsed(job[1].base_url).emails)
  /\ Parsed(job[1].base_url).emails # {}

\* C16: in a crawl every fetch of a subpage comes right after one politeness
\* delay, of a length within the delay range, and every politeness delay is
\* followed by the fetch of a subpage; the fetch of the seed is the first thing
\* the crawl does, with no delay before it, and a frontier entry that is
\* skipped is not preceded by a delay.
InvC16 ==
  LET tr == job[1].trace
  IN  \A i \in DOMAIN tr :
        /\ tr[i].ev = "fetch" /\ tr[i].base => i = 1
        /\ tr[i].ev = "fetch" /\ ~ tr[i].base =>
             /\ i > 1
             /\ tr[i - 1].ev = "delay"
             /\ tr[i - 1].secs \in (job[1].delay[1])..(job[1].delay[2])
             /\ i > 2 => tr[i - 2].ev # "delay"
        /\ tr[i].ev = "delay" =>
             IF i < Len(tr)
             THEN tr[i + 1].ev = "fetch" /\ ~ tr[i + 1].base
             ELSE job[1].pc = "call" /\ ~ job[1].is_base
        /\ tr[i].ev = "skip" => i > 1 /\ tr[i - 1].ev # "delay"

\* C16 witness: a crawl is done that skipped a frontier entry and fetched two
\* subpages, after delays of different lengths.
WitC16 ==
  LET tr == job[1].trace
  IN  /\ job[1].pc = "done"
      /\ \E i \in DOMAIN tr : tr[i].ev = "skip"
      /\ \E i, k \in DOMAIN tr :
           /\ tr[i].ev = "delay" /\ tr[k].ev = "delay"
           /\ tr[i].secs # tr[k].secs
           /\ tr[i + 1].ev = "fetch" /\ tr[k + 1].ev = "fetch"

\* C17 (as claimed): for a batch of no URLs the dispatcher, sized by
\* get_optimal_workers(0), does not end in an error, and what it returns is the
\* empty sequence.
ClaimC17 ==
  urls = <<>> =>
    /\ phase # "failed"
    /\ phase = "done" => results = <<>>

\* C18: no step of a crawl takes a URL out of the visited set; a URL is in the
\* set from the moment its fetch begins, before any attempt has been made,
\* and stays there when every attempt failed; and no URL is handed to the
\* fetcher twice in a crawl.
FetchEvents(j) == {i \in DOMAIN j.trace : j.trace[i].ev = "fetch"}

StepC18(p) ==
  /\ job[p].visited_urls \subseteq job'[p].visited_urls
  /\ \A i \in FetchEvents(job'[p]) :
       /\ job'[p].trace[i].url \in job'[p].visited_urls
       /\ \A k \in FetchEvents(job'[p]) :
            job'[p].trace[k].url = job'[p].trace[i].url => k = i
  /\ job'[p].pc = "loop" => job'[p].url \in job'[p].visited_urls

ActC18 == [][StepC18(1)]_vars

\* C18 witness: a crawl is done in which every attempt on a subpage failed, at
\* least two of them, and the subpage is in the visited set with the seed.
WitC18 ==
  LET tr == job[1].trace
  IN  /\ job[1].pc = "done"
      /\ \E i \in FetchEvents(job[1]) :
           /\ ~ tr[i].base
           /\ tr[i].url \in job[1].visited_urls
           /\ job[1].base_url \in job[1].visited_urls
           /\ \A k \in DOMAIN tr :
                tr[k].ev = "get" /\ tr[k].url = tr[i].url =>
                  tr[k].out = "RequestException"
           /\ \E k \in DOMAIN tr :
                tr[k].ev = "get" /\ tr[k].url = tr[i].url /\ tr[k].attempt = 1

\* C19: in the drain loop pages_visited is one more than the number of
\* subpages handed to the fetcher, those whose every attempt failed included
\* and the skipped entries not; so a crawl that no error ended leaves entries
\* in the frontier only when the subpages it fetched used up the budget.
InvC19 ==
  /\ job[1].pc = "drain" => job[1].pages_visited = 1 + NonSeedFetched(job[1])
  /\ job[1].pc = "done" /\ ~ job[1].raised =>
       \/ job[1].subpages_to_visit = <<>>
       \/ 1 + NonSeedFetched(job[1]) >= job[1].max_subpages

\* C19 witness: a crawl with room for two subpages is done; it skipped one
\* frontier entry and fetched two subpages, one of which failed on every
\* attempt.
WitC19 ==
  LET tr == job[1].trace
  IN  /\ job[1].pc = "done"
      /\ ~ job[1].raised
      /\ job[1].max_subpages = 3
      /\ NonSeedFetched(job[1]) = 2
      /\ \E i \in DOMAIN tr : tr[i].ev = "skip"
      /\ \E i \in DOMAIN tr :
           /\ tr[i].ev = "fetch" /\ ~ tr[i].base
           /\ \E k \in DOMAIN tr : tr[k].ev = "get" /\ tr[k].url = tr[i].url
           /\ \A k \in DOMAIN tr :
                tr[k].ev = "get" /\ tr[k].url = tr[i].url =>
                  tr[k].out = "RequestException"

====
